---------------------------- MODULE Spec2Model ----------------------------
(***************************************************************************)
(* A model of the personal key-value store.                                *)
(*                                                                         *)
(*   MetaInfo   src/datastore/datastore.py 13-82                           *)
(*   FileMeta   src/datastore/datastore.py 85-217  (the slot allocator)    *)
(*   DataStore  src/datastore/datastore.py 220-369 (the record store)      *)
(*   synchronized  src/datastore/utils.py 14-21                            *)
(*                                                                         *)
(* Time is an integer number of clock ticks.  created_time goes through    *)
(* strftime/strptime with constants.TIME_FORMAT; the docstring of          *)
(* build_expiry_time_heap (lines 120-121) says datetime precision is kept, *)
(* so a tick survives that round trip unchanged.                           *)
(*                                                                         *)
(* The value file is opened with mode 'a+' (line 310).  On POSIX that is   *)
(* O_APPEND: every write lands at the end of the file whatever seek() was  *)
(* called before it, tell() after a write is the end of the file, and      *)
(* tell() after a read is the place where the read stopped.                *)
(***************************************************************************)
EXTENDS Integers, Sequences, FiniteSets, TLC

VARIABLES
    meta_dict,          \* FileMeta.meta_dict: MetaInfo records in dict (insertion) order
    expiry_time_heap,   \* FileMeta.expiry_time_heap: list of <<expiry time, MetaInfo>>
    free_slots,         \* FileMeta.free_slots: list of offsets
    file,               \* the bytes of the value file
    pos,                \* the position of DataStore.file_handle
    now,                \* datetime.now(), in ticks
    last,               \* the latest call: what was called and what it returned
    prev,               \* the call before the latest one
    loaded,             \* the index handed to FileMeta.__init__
    calls,              \* how many calls were made so far
    pc,                 \* per thread: the statement it is at
    lock,               \* per synchronized function: the thread holding func.__lock__
    loc,                \* per thread: the local variables of its call
    handle,             \* DataStore.file_handle: "none", "open" or "closed"
    session,            \* the with block of a DataStore: "out", "in", "failed", "closed"
    meta_file,          \* the metadata file on disk
    hist,               \* the calls that overlap, and the state they began in
    written             \* for each key, the value its last create or update wrote

vars == <<meta_dict, expiry_time_heap, free_slots, file, pos, now, last, prev,
          loaded, calls, pc, lock, loc, handle, session, meta_file, hist, written>>

(*************************** bounds and constants **************************)

\* constants.VALUE_SIZE: the width of a slot in bytes
VALUE_SIZE == 4

\* constants.MAX_FILE_SIZE: the ceiling that _validate compares the position with
MAX_FILE_SIZE == 8

\* the key-size limit of _validate
MAX_KEY_LEN == 32

\* the clock stops after this many ticks
MaxTime == 2

\* a FileMeta object receives at most this many calls
MaxCallsFM == 2

\* a DataStore session makes at most this many calls
MaxCalls == 3

\* the largest slot number of an index handed to FileMeta.__init__
MaxLoadSlot == 5

\* Python's None, where a number is expected
None == -1

Keys == {"a", "b"}

\* a key of 32 bytes, which _validate refuses
LongKey == "k32"

\* ttl arguments: None, 0 seconds, 1 and 2 seconds
TTLs == {None, 0, 1, 2}

Max(a, b) == IF a >= b THEN a ELSE b

Min(a, b) == IF a <= b THEN a ELSE b

\* Python's truth value of a ttl: None and 0 are false
Truthy(x) == x # None /\ x # 0

(********************************* MetaInfo ********************************)

\* str(timedelta(seconds=ttl)): the duration string of a ttl
timedelta_str(ttl) == [tag |-> "duration", seconds |-> ttl]

\* the absent ttl of an info_dict
NoTtl == [tag |-> "none", seconds |-> 0]

\* pytimeparse.parse: the seconds of a duration string
parse(s) == s.seconds

\* MetaInfo.__init__(key, info_dict)
MetaInfo(key, info_dict) ==
    [key          |-> key,
     seek_val     |-> info_dict.seek_val,
     ttl          |-> IF info_dict.ttl.tag # "none" THEN parse(info_dict.ttl) ELSE None,
     created_time |-> info_dict.created_time]

\* MetaInfo.build_meta_info(key, seek_val, ttl) called at time t
build_meta_info(key, seek_val, ttl, t) ==
    MetaInfo(key, [created_time |-> t,
                   ttl          |-> IF Truthy(ttl) THEN timedelta_str(ttl) ELSE NoTtl,
                   seek_val     |-> seek_val])

\* MetaInfo.__lt__
MetaInfo_lt(self, other) == self.created_time < other.created_time

\* MetaInfo.expiry_time
expiry_time(self) ==
    IF ~Truthy(self.ttl) THEN None ELSE self.created_time + self.ttl

(********************************** heapq **********************************)

\* x < y for two heap entries <<expiry time, MetaInfo>>: Python compares tuples
\* by their first differing element, and MetaInfo objects by created_time
EntryLt(x, y) ==
    IF x[1] # y[1] THEN x[1] < y[1]
    ELSE IF x[2] = y[2] THEN FALSE
    ELSE MetaInfo_lt(x[2], y[2])

RECURSIVE siftdown_loop(_, _, _, _)
siftdown_loop(heap, startpos, p, newitem) ==
    IF p > startpos
    THEN LET parentpos == (p - 1) \div 2
             parent    == heap[parentpos + 1]
         IN  IF EntryLt(newitem, parent)
             THEN siftdown_loop([heap EXCEPT ![p + 1] = parent], startpos, parentpos, newitem)
             ELSE [heap EXCEPT ![p + 1] = newitem]
    ELSE [heap EXCEPT ![p + 1] = newitem]

\* heapq._siftdown(heap, startpos, pos), positions counted from 0
siftdown(heap, startpos, p) == siftdown_loop(heap, startpos, p, heap[p + 1])

RECURSIVE siftup_loop(_, _, _)
siftup_loop(heap, p, childpos) ==
    IF childpos < Len(heap)
    THEN LET rightpos == childpos + 1
             c == IF rightpos < Len(heap) /\ ~EntryLt(heap[childpos + 1], heap[rightpos + 1])
                  THEN rightpos ELSE childpos
         IN  siftup_loop([heap EXCEPT ![p + 1] = heap[c + 1]], c, 2 * c + 1)
    ELSE <<heap, p>>

\* heapq._siftup(heap, pos)
siftup(heap, p) ==
    LET newitem == heap[p + 1]
        moved   == siftup_loop(heap, p, 2 * p + 1)
    IN  siftdown([moved[1] EXCEPT ![moved[2] + 1] = newitem], p, moved[2])

\* a plausible slip: the new entry is appended and never sifted towards the root
heappush_nosift(heap, item) == Append(heap, item)

\* heapq.heappush(heap, item)
heappush(heap, item) == siftdown(Append(heap, item), 0, Len(heap))

\* heapq.heappop(heap): the heap that is left (the caller has read heap[0])
heappop(heap) ==
    LET lastelt == heap[Len(heap)]
        rest    == SubSeq(heap, 1, Len(heap) - 1)
    IN  IF Len(rest) > 0 THEN siftup([rest EXCEPT ![1] = lastelt], 0) ELSE rest

RECURSIVE heapify_from(_, _)
heapify_from(x, i) == IF i < 0 THEN x ELSE heapify_from(siftup(x, i), i - 1)

\* heapq.heapify(x)
heapify(x) == heapify_from(x, (Len(x) \div 2) - 1)


(********************************* FileMeta ********************************)

\* key in self.meta_dict
DictHas(md, key) == \E i \in 1..Len(md) : md[i].key = key

\* self.meta_dict[key], for a key that is present
DictGet(md, key) == md[CHOOSE i \in 1..Len(md) : md[i].key = key]

\* self.meta_dict[key] = meta_info: a present key keeps its place in the dict
\* order, a new key goes last
DictSet(md, key, meta_info) ==
    IF DictHas(md, key)
    THEN [i \in 1..Len(md) |-> IF md[i].key = key THEN meta_info ELSE md[i]]
    ELSE Append(md, meta_info)

\* del self.meta_dict[key]
DictDel(md, key) == SelectSeq(md, LAMBDA m : m.key # key)

\* range(start, stop, step) as a list
RECURSIVE range(_, _, _)
range(start, stop, step) ==
    IF start >= stop THEN <<>> ELSE <<start>> \o range(start + step, stop, step)

\* one step of the stable sort: x goes after the entries that are not greater
RECURSIVE insert_sorted(_, _)
insert_sorted(s, x) ==
    IF s = <<>> THEN <<x>>
    ELSE IF x.seek_val < Head(s).seek_val THEN <<x>> \o s
    ELSE <<Head(s)>> \o insert_sorted(Tail(s), x)

\* sorted(list(self.meta_dict.values()), key=lambda x: x.seek_val)
RECURSIVE sorted_seek_vals(_)
sorted_seek_vals(md) ==
    IF md = <<>> THEN <<>>
    ELSE insert_sorted(sorted_seek_vals(SubSeq(md, 1, Len(md) - 1)), md[Len(md)])

\* a plausible slip: the gap starts at seek_1, the slot of a live key
gap_from_live(seek_1, seek_2) ==
    IF seek_2 - seek_1 > VALUE_SIZE THEN range(seek_1, seek_2, VALUE_SIZE) ELSE <<>>

\* the slots preprocess adds for one pair of neighbours (lines 111-116)
gap(seek_1, seek_2) ==
    IF seek_2 - seek_1 > VALUE_SIZE
    THEN range(seek_1 + VALUE_SIZE, seek_2, VALUE_SIZE)
    ELSE <<>>

\* the loop of preprocess over zip(sorted_seek_vals, sorted_seek_vals[1:])
RECURSIVE gaps(_, _)
gaps(sorted, i) ==
    IF i >= Len(sorted) THEN <<>>
    ELSE gap(sorted[i].seek_val, sorted[i + 1].seek_val) \o gaps(sorted, i + 1)

\* the list comprehension of build_expiry_time_heap (lines 127-130)
RECURSIVE expiry_times(_)
expiry_times(md) ==
    IF md = <<>> THEN <<>>
    ELSE (IF Truthy(Head(md).ttl) THEN << <<expiry_time(Head(md)), Head(md)>> >> ELSE <<>>)
         \o expiry_times(Tail(md))

\* FileMeta.build_expiry_time_heap
build_expiry_time_heap(md) == heapify(expiry_times(md))

\* FileMeta.preprocess: the free_slots it leaves (the heap is build_expiry_time_heap)
preprocess(md) == gaps(sorted_seek_vals(md), 1)

\* a plausible slip: an entry counts as expired at its expiry time already
expired_at_expiry(t, expiry) == t >= expiry

\* datetime.now() > expiry_time (line 160)
expired(t, expiry) == t > expiry

\* which branch of FileMeta.create chooses the slot (lines 154-162)
slot_source(heap, fs, t) ==
    IF Len(fs) > 0 THEN "free"
    ELSE IF Len(heap) > 0 /\ expired(t, heap[1][1]) THEN "expired"
    ELSE "fallback"

\* a plausible slip: the expiry heap is looked at before free_slots
choose_slot_heap_first(heap, fs, current_seek, t) ==
    IF Len(heap) > 0 /\ expired(t, heap[1][1]) THEN heap[1][2].seek_val
    ELSE IF Len(fs) > 0 THEN fs[1]
    ELSE current_seek

\* the slot FileMeta.create returns (lines 152-162)
choose_slot(heap, fs, current_seek, t) ==
    CASE slot_source(heap, fs, t) = "free"     -> fs[1]
      [] slot_source(heap, fs, t) = "expired"  -> heap[1][2].seek_val
      [] OTHER                                 -> current_seek

\* FileMeta.create(key, current_seek, ttl) called at time t
FileMeta_create(md, heap, fs, key, current_seek, ttl, t) ==
    LET src       == slot_source(heap, fs, t)
        slot      == choose_slot(heap, fs, current_seek, t)
        fs1       == IF src = "free" THEN Tail(fs) ELSE fs
        heap1     == IF src = "expired" THEN heappop(heap) ELSE heap
        meta_info == build_meta_info(key, slot, ttl, t)
        heap2     == IF Truthy(ttl)
                     THEN heappush(heap1, <<expiry_time(meta_info), meta_info>>)
                     ELSE heap1
    IN  [meta_dict        |-> DictSet(md, key, meta_info),
         expiry_time_heap |-> heap2,
         free_slots       |-> fs1,
         slot             |-> slot,
         src              |-> src]

\* a plausible slip: delete forgets to hand the slot back
delete_free_slots_kept(fs, seek_val) == fs

\* self.free_slots.append(meta_info.seek_val) (line 199)
delete_free_slots(fs, seek_val) == Append(fs, seek_val)

\* the else branch of FileMeta.delete, for a key that is present (lines 196-201)
delete_found(md, heap, fs, key) ==
    LET meta_info == DictGet(md, key)
        md1       == DictDel(md, key)
    IN  [meta_dict        |-> md1,
         expiry_time_heap |-> build_expiry_time_heap(md1),
         free_slots       |-> delete_free_slots(fs, meta_info.seek_val),
         slot             |-> meta_info.seek_val,
         found            |-> TRUE]

\* a plausible slip: without the membership test, an absent key hands the
\* offset of a default (None) to free_slots
FileMeta_delete_unchecked(md, heap, fs, key) ==
    IF ~DictHas(md, key)
    THEN [meta_dict |-> md, expiry_time_heap |-> heap,
          free_slots |-> delete_free_slots(fs, None), slot |-> None, found |-> FALSE]
    ELSE delete_found(md, heap, fs, key)

\* FileMeta.delete(key): None for a key that is absent (lines 193-194)
FileMeta_delete(md, heap, fs, key) ==
    IF ~DictHas(md, key)
    THEN [meta_dict |-> md, expiry_time_heap |-> heap, free_slots |-> fs,
          slot |-> None, found |-> FALSE]
    ELSE delete_found(md, heap, fs, key)

\* a plausible slip: update builds the new MetaInfo without the ttl
FileMeta_update_without_ttl(md, heap, fs, key, seek_val, ttl, t) ==
    LET meta_info == build_meta_info(key, seek_val, None, t)
        md1       == DictSet(md, key, meta_info)
    IN  [meta_dict        |-> md1,
         expiry_time_heap |-> build_expiry_time_heap(md1),
         free_slots       |-> fs,
         slot             |-> seek_val]

\* FileMeta.update(key, seek_val, ttl) called at time t
FileMeta_update(md, heap, fs, key, seek_val, ttl, t) ==
    LET meta_info == build_meta_info(key, seek_val, ttl, t)
        md1       == DictSet(md, key, meta_info)
    IN  [meta_dict        |-> md1,
         expiry_time_heap |-> build_expiry_time_heap(md1),
         free_slots       |-> fs,
         slot             |-> seek_val]


\* what dict.get gives for a key that is absent
NoMetaInfo == [key |-> "", seek_val |-> None, ttl |-> None, created_time |-> None]

\* a plausible slip: an absent key reads as a MetaInfo at the beginning of the file
FileMeta_read_default(md, key) ==
    IF DictHas(md, key) THEN DictGet(md, key)
    ELSE [key |-> key, seek_val |-> 0, ttl |-> None, created_time |-> 0]

\* FileMeta.read(key): self.meta_dict.get(key)
FileMeta_read(md, key) ==
    IF DictHas(md, key) THEN DictGet(md, key) ELSE NoMetaInfo

(****************************** call records *******************************)

\* what a call finds when it begins: whether free_slots and the expiry heap are
\* both empty, and where the minimum of the heap stands against the clock
PreFacts ==
    [empty |-> free_slots = <<>> /\ expiry_time_heap = <<>>,
     top   |-> IF expiry_time_heap = <<>> THEN "none"
               ELSE IF now > expiry_time_heap[1][1] THEN "past"
               ELSE IF now = expiry_time_heap[1][1] THEN "due"
               ELSE "ahead"]

\* the record of a call: what was called, with what (seek is the fallback offset
\* of a create), and what came back.  src is the branch of FileMeta.create that
\* chose the slot; pre is what the call found; raised is whether the call ended
\* with an exception
Call(op, key, value, seek, ok, ret, data, src) ==
    [op |-> op, key |-> key, value |-> value, seek |-> seek, ok |-> ok, ret |-> ret,
     data |-> data, src |-> src, pre |-> PreFacts, raised |-> FALSE]

\* the record of a call that ended with an exception
Raised(c) == [c EXCEPT !.ok = FALSE, !.raised = TRUE]

NoCall ==
    [op |-> "none", key |-> "", value |-> "", seek |-> None, ok |-> FALSE, ret |-> None,
     data |-> <<>>, src |-> "", pre |-> [empty |-> TRUE, top |-> "none"], raised |-> FALSE]

Threads == {1, 2}

LockNames == {"create", "update", "delete"}

\* the variables of the threads, which the single-threaded specifications leave alone
thread_vars == <<pc, lock, loc>>

\* the local variables of a call: its arguments, current_seek of create,
\* seek_val and meta_info, the branch that chose the slot, whether it went
\* through, whether it raised
Locals(op, key, value, ttl) ==
    [op |-> op, key |-> key, value |-> value, ttl |-> ttl, current_seek |-> None,
     seek_val |-> None, meta_info |-> <<>>, src |-> "", ok |-> FALSE, raised |-> FALSE]

NoLocals == Locals("none", "", "", None)

\* the variables of a session
session_vars == <<handle, session, meta_file>>

\* no metadata file at the path
NoMetaFile == [kind |-> "absent", entries |-> <<>>]

\* no calls overlap
NoHist == [start |-> <<>>, began |-> 0, batch |-> <<>>]

\* nothing written for any key
NoWritten == [key \in Keys |-> ""]

ThreadsIdle ==
    /\ pc = [t \in Threads |-> "idle"]
    /\ lock = [l \in LockNames |-> 0]
    /\ loc = [t \in Threads |-> NoLocals]

(************************* FileMeta, called directly ***********************)

\* the fallback offsets a caller of FileMeta.create passes
Seeks == {0, VALUE_SIZE}

\* one entry of a metadata file: a key with its info_dict
LoadEntry(key, slot, ttl) ==
    [key |-> key,
     info_dict |-> [seek_val     |-> slot * VALUE_SIZE,
                    ttl          |-> IF ttl = None THEN NoTtl ELSE timedelta_str(ttl),
                    created_time |-> 0]]

\* the entries a key may have in a metadata file: none, or one at a slot of
\* slots with a ttl of ttls
LoadChoices(key, slots, ttls) ==
    {<<>>} \cup {<<LoadEntry(key, slot, ttl)>> : slot \in slots, ttl \in ttls}

\* the indexes a FileMeta that is then called is built from: key a at slot 0,
\* key b at slot 2, each with or without a ttl of one tick
SmallLoads ==
    {ea \o eb : ea \in LoadChoices("a", {0}, {None, 1}),
                eb \in LoadChoices("b", {2}, {None, 1})}

\* the indexes preprocess is tried on: up to three keys at any slots
BigLoads ==
    {ea \o eb \o ec : ea \in LoadChoices("a", 0..MaxLoadSlot, {None, 1}),
                      eb \in LoadChoices("b", 0..MaxLoadSlot, {None, 1}),
                      ec \in LoadChoices("c", 0..MaxLoadSlot, {None, 1})}

\* before FileMeta.__init__: the index that will be handed to it
Unbuilt(loads) ==
    /\ loaded \in loads
    /\ meta_dict = <<>>
    /\ expiry_time_heap = <<>>
    /\ free_slots = <<>>
    /\ file = <<>>
    /\ pos = 0
    /\ now = 0
    /\ last = NoCall
    /\ prev = NoCall
    /\ calls = 0
    /\ ThreadsIdle
    /\ handle = "none"
    /\ session = "out"
    /\ meta_file = NoMetaFile
    /\ hist = NoHist
    /\ written = NoWritten

\* self.meta_dict of FileMeta.__init__ (line 96)
load_meta_dict(ld) == [i \in 1..Len(ld) |-> MetaInfo(ld[i].key, ld[i].info_dict)]

\* FileMeta.__init__(meta_dict) (lines 95-99)
Construct ==
    /\ last.op = "none"
    /\ \E md \in {load_meta_dict(loaded)} :
        /\ meta_dict' = md
        /\ expiry_time_heap' = build_expiry_time_heap(md)
        /\ free_slots' = preprocess(md)
    /\ last' = Call("init", "", "", None, TRUE, None, <<>>, "")
    /\ UNCHANGED <<file, pos, now, prev, loaded, calls, thread_vars, session_vars, hist, written>>

\* the FileMeta object exists and may be called once more
CallableFM == last.op # "none" /\ calls < MaxCallsFM

\* file_meta.create(key, current_seek, ttl=ttl)
FMCreate(key, current_seek, ttl) ==
    /\ CallableFM
    /\ \E r \in {FileMeta_create(meta_dict, expiry_time_heap, free_slots,
                                 key, current_seek, ttl, now)} :
        /\ meta_dict' = r.meta_dict
        /\ expiry_time_heap' = r.expiry_time_heap
        /\ free_slots' = r.free_slots
        /\ last' = Call("create", key, "", current_seek, TRUE, r.slot, <<>>, r.src)
    /\ prev' = last
    /\ calls' = calls + 1
    /\ UNCHANGED <<file, pos, now, loaded, thread_vars, session_vars, hist, written>>

\* file_meta.update(key, seek_val, ttl), with the key's own offset as
\* DataStore.update passes it
FMUpdate(key, ttl) ==
    /\ CallableFM
    /\ DictHas(meta_dict, key)
    /\ \E r \in {FileMeta_update(meta_dict, expiry_time_heap, free_slots,
                                 key, DictGet(meta_dict, key).seek_val, ttl, now)} :
        /\ meta_dict' = r.meta_dict
        /\ expiry_time_heap' = r.expiry_time_heap
        /\ free_slots' = r.free_slots
        /\ last' = Call("update", key, "", None, TRUE, r.slot, <<>>, "")
    /\ prev' = last
    /\ calls' = calls + 1
    /\ UNCHANGED <<file, pos, now, loaded, thread_vars, session_vars, hist, written>>

\* file_meta.delete(key)
FMDelete(key) ==
    /\ CallableFM
    /\ \E r \in {FileMeta_delete(meta_dict, expiry_time_heap, free_slots, key)} :
        /\ meta_dict' = r.meta_dict
        /\ expiry_time_heap' = r.expiry_time_heap
        /\ free_slots' = r.free_slots
        /\ last' = Call("delete", key, "", None, r.found, r.slot, <<>>, "")
    /\ prev' = last
    /\ calls' = calls + 1
    /\ UNCHANGED <<file, pos, now, loaded, thread_vars, session_vars, hist, written>>

\* the clock advances by one tick between two calls
Tick ==
    /\ now < MaxTime
    /\ now' = now + 1
    /\ UNCHANGED <<meta_dict, expiry_time_heap, free_slots, file, pos, last, prev,
                   loaded, calls, thread_vars, session_vars, hist, written>>

InitFM == Unbuilt(SmallLoads)

NextFM ==
    \/ Construct
    \/ \E key \in Keys \cup {"c"}, current_seek \in Seeks, ttl \in TTLs :
           FMCreate(key, current_seek, ttl)
    \/ \E key \in Keys, ttl \in TTLs : FMUpdate(key, ttl)
    \/ \E key \in Keys : FMDelete(key)
    \/ Tick

\* a FileMeta object built from a small index, then called
SpecFM == InitFM /\ [][NextFM]_vars

InitLoad == Unbuilt(BigLoads)

NextLoad == Construct

\* FileMeta.__init__ on an index of up to three keys
SpecLoad == InitLoad /\ [][NextLoad]_vars

(************************** DataStore, one thread **************************)

\* the values a caller stores
Values == {"one", "two", "big"}

\* json.dumps(value): the text of a dict, which opens with a brace
json_dumps(value) ==
    CASE value = "one" -> <<"{", "1", "}">>
      [] value = "two" -> <<"{", "}">>
      [] OTHER         -> <<"{", "1", "2", "3", "}">>

\* utils.utf8len(key)
utf8len_key(key) == IF key = LongKey THEN MAX_KEY_LEN ELSE 1

\* a plausible slip: the text is written as it is, without the padding
zfill_nopad(text, width) == text

\* str.zfill(width) of a text that carries no sign: zeros on the left up to width
zfill(text, width) ==
    [i \in 1..(Max(width, Len(text)) - Len(text)) |-> "0"] \o text

\* str.lstrip('0')
RECURSIVE lstrip0(_)
lstrip0(text) ==
    IF text # <<>> /\ Head(text) = "0" THEN lstrip0(Tail(text)) ELSE text

\* a plausible slip: only the key is validated
validate_key_only(key, value, seek_pos) == utf8len_key(key) < MAX_KEY_LEN

\* DataStore._validate(key, value, seek_pos): whether the call may go on
validate(key, value, seek_pos) ==
    LET key_validation   == utf8len_key(key) < MAX_KEY_LEN
        value_validation == Len(json_dumps(value)) < VALUE_SIZE
        file_validation  == seek_pos <= MAX_FILE_SIZE - VALUE_SIZE
    IN  key_validation /\ value_validation /\ file_validation

\* DataStore.commit(value, pos) on a file opened 'a+': the bytes of the file
\* after seek(pos) and write(...); the write is appended wherever pos is
commit(f, value, p) == f \o zfill(json_dumps(value), VALUE_SIZE)

\* file_handle.seek(seek_val); file_handle.read(VALUE_SIZE): the text read
read_at(f, seek_val) ==
    SubSeq(f, seek_val + 1, Min(Len(f), seek_val + VALUE_SIZE))

\* DataStore(...).__enter__() on a path that holds no file yet (lines 309-319)
Init ==
    /\ meta_dict = <<>>
    /\ expiry_time_heap = <<>>
    /\ free_slots = <<>>
    /\ file = <<>>
    /\ pos = 0
    /\ now = 0
    /\ last = NoCall
    /\ prev = NoCall
    /\ loaded = <<>>
    /\ calls = 0
    /\ ThreadsIdle
    /\ handle = "open"
    /\ session = "in"
    /\ meta_file = NoMetaFile
    /\ hist = NoHist
    /\ written = NoWritten

\* DataStore.create(key, value, ttl)
Create(key, value, ttl) ==
    /\ session = "in"
    /\ calls < MaxCalls
    /\ LET current_seek == pos
       IN  IF ~validate(key, value, current_seek)
           THEN /\ last' = Call("create", key, value, current_seek, FALSE, None, <<>>, "")
                /\ UNCHANGED <<meta_dict, expiry_time_heap, free_slots, file, pos, written>>
           ELSE \E r \in {FileMeta_create(meta_dict, expiry_time_heap, free_slots,
                                          key, current_seek, ttl, now)} :
                /\ meta_dict' = r.meta_dict
                /\ expiry_time_heap' = r.expiry_time_heap
                /\ free_slots' = r.free_slots
                /\ file' = commit(file, value, r.slot)
                /\ pos' = Len(file')
                /\ written' = [written EXCEPT ![key] = value]
                /\ last' = Call("create", key, value, current_seek, TRUE, r.slot, <<>>, r.src)
    /\ prev' = last
    /\ calls' = calls + 1
    /\ UNCHANGED <<now, loaded, thread_vars, session_vars, hist>>

\* DataStore.read(key): a key that is absent raises AttributeError at line 270
Read(key) ==
    /\ session = "in"
    /\ calls < MaxCalls
    /\ \E meta_info \in {FileMeta_read(meta_dict, key)} :
       IF meta_info = NoMetaInfo
       THEN /\ last' = Raised(Call("read", key, "", None, FALSE, None, <<>>, ""))
            /\ UNCHANGED pos
       ELSE \E seek_val \in {meta_info.seek_val} :
            \E text \in {read_at(file, seek_val)} :
                /\ pos' = seek_val + Len(text)
                /\ last' = Call("read", key, "", None, TRUE, seek_val, lstrip0(text), "")
    /\ prev' = last
    /\ calls' = calls + 1
    /\ UNCHANGED <<meta_dict, expiry_time_heap, free_slots, file, now, loaded, thread_vars, session_vars, hist, written>>

\* DataStore.delete(key)
Delete(key) ==
    /\ session = "in"
    /\ calls < MaxCalls
    /\ \E r \in {FileMeta_delete(meta_dict, expiry_time_heap, free_slots, key)} :
        /\ meta_dict' = r.meta_dict
        /\ expiry_time_heap' = r.expiry_time_heap
        /\ free_slots' = r.free_slots
        /\ last' = Call("delete", key, "", None, r.found, r.slot, <<>>, "")
        /\ written' = IF r.found THEN [written EXCEPT ![key] = ""] ELSE written
    /\ prev' = last
    /\ calls' = calls + 1
    /\ UNCHANGED <<file, pos, now, loaded, thread_vars, session_vars, hist>>

\* DataStore.update(key, value, ttl): a key that is absent raises AttributeError
\* at line 304
Update(key, value, ttl) ==
    /\ session = "in"
    /\ calls < MaxCalls
    /\ \E meta_info \in {FileMeta_read(meta_dict, key)} :
       IF ~validate(key, value, 0)
       THEN /\ last' = Call("update", key, value, None, FALSE, None, <<>>, "")
            /\ UNCHANGED <<meta_dict, expiry_time_heap, free_slots, file, pos, written>>
       ELSE IF meta_info = NoMetaInfo
       THEN /\ last' = Raised(Call("update", key, value, None, FALSE, None, <<>>, ""))
            /\ UNCHANGED <<meta_dict, expiry_time_heap, free_slots, file, pos, written>>
       ELSE \E seek_val \in {meta_info.seek_val} :
            \E r \in {FileMeta_update(meta_dict, expiry_time_heap, free_slots,
                                      key, seek_val, ttl, now)} :
                /\ meta_dict' = r.meta_dict
                /\ expiry_time_heap' = r.expiry_time_heap
                /\ free_slots' = r.free_slots
                /\ file' = commit(file, value, seek_val)
                /\ pos' = Len(file')
                /\ written' = [written EXCEPT ![key] = value]
                /\ last' = Call("update", key, value, None, TRUE, seek_val, <<>>, "")
    /\ prev' = last
    /\ calls' = calls + 1
    /\ UNCHANGED <<now, loaded, thread_vars, session_vars, hist>>

\* the keys and values a caller passes: every pair that passes validation, one
\* key that is too long and one value that is too large
Inputs ==
    {<<key, value>> : key \in Keys, value \in {"one", "two"}}
        \cup {<<LongKey, "one">>, <<"a", "big">>}

\* the ttl arguments of the DataStore calls: none, 0 seconds, 1 second
SessionTTLs == {None, 0, 1}

Next ==
    \/ \E kv \in Inputs, ttl \in SessionTTLs : Create(kv[1], kv[2], ttl)
    \/ \E key \in Keys : Read(key)
    \/ \E key \in Keys : Delete(key)
    \/ \E kv \in Inputs, ttl \in SessionTTLs : Update(kv[1], kv[2], ttl)
    \/ Tick

\* one session of one thread on a new store
Spec == Init /\ [][Next]_vars

(*************************** calls, one at a time **************************)

\* what a call works on: the FileMeta object, the value file and its handle
StoreState(md, heap, fs, f, p) ==
    [meta_dict |-> md, expiry_time_heap |-> heap, free_slots |-> fs, file |-> f, pos |-> p]

\* the store of a new path, after __enter__
EmptyStore == StoreState(<<>>, <<>>, <<>>, <<>>, 0)

\* DataStore.create(key, value, ttl) at time t, from beginning to end
DS_create(s, key, value, ttl, t) ==
    IF ~validate(key, value, s.pos) THEN s
    ELSE LET r == FileMeta_create(s.meta_dict, s.expiry_time_heap, s.free_slots,
                                  key, s.pos, ttl, t)
             f == commit(s.file, value, r.slot)
         IN  StoreState(r.meta_dict, r.expiry_time_heap, r.free_slots, f, Len(f))

\* DataStore.update(key, value, ttl) at time t, from beginning to end
DS_update(s, key, value, ttl, t) ==
    IF ~validate(key, value, 0) \/ FileMeta_read(s.meta_dict, key) = NoMetaInfo THEN s
    ELSE LET seek_val == FileMeta_read(s.meta_dict, key).seek_val
             r == FileMeta_update(s.meta_dict, s.expiry_time_heap, s.free_slots,
                                  key, seek_val, ttl, t)
             f == commit(s.file, value, seek_val)
         IN  StoreState(r.meta_dict, r.expiry_time_heap, r.free_slots, f, Len(f))

\* DataStore.delete(key), from beginning to end
DS_delete(s, key) ==
    LET r == FileMeta_delete(s.meta_dict, s.expiry_time_heap, s.free_slots, key)
    IN  StoreState(r.meta_dict, r.expiry_time_heap, r.free_slots, s.file, s.pos)

\* one call c = [op, key, value, ttl], from beginning to end
DS_call(s, c, t) ==
    CASE c.op = "create" -> DS_create(s, c.key, c.value, c.ttl, t)
      [] c.op = "update" -> DS_update(s, c.key, c.value, c.ttl, t)
      [] c.op = "delete" -> DS_delete(s, c.key)
      [] OTHER           -> s

\* the calls of a list, one after the other, the i-th at time ts[i]
RECURSIVE DS_calls(_, _, _)
DS_calls(s, cs, ts) ==
    IF cs = <<>> THEN s
    ELSE DS_calls(DS_call(s, Head(cs), Head(ts)), Tail(cs), Tail(ts))

(**************************** DataStore sessions ***************************)

\* MetaInfo.__str__ (lines 76-82): the ttl is written as the number of seconds
\* it was parsed to, or as null
MetaInfo_str(m) ==
    [key |-> m.key,
     info_dict |-> [seek_val     |-> m.seek_val,
                    ttl          |-> IF Truthy(m.ttl)
                                     THEN [tag |-> "int", seconds |-> m.ttl]
                                     ELSE NoTtl,
                    created_time |-> m.created_time]]

\* json.dump(self.file_meta.meta_dict, meta_file, cls=MetaInfo.MetaInfoEncoder)
\* (line 325): every MetaInfo is written as str(o)
dump_meta_dict(md) ==
    [kind |-> "json", entries |-> [i \in 1..Len(md) |-> MetaInfo_str(md[i])]]

\* MetaInfo.__init__ line 27 raises: a ttl that is a number is truthy and goes
\* to pytimeparse.parse, which matches regular expressions against it and
\* raises TypeError for anything that is not a string
MetaInfo_raises(info_dict) == info_dict.ttl.tag = "int" /\ info_dict.ttl.seconds # 0

\* DataStore.__enter__ raises: json.load on a malformed file (line 314), or a
\* MetaInfo constructor inside FileMeta.__init__ (lines 318, 96)
enter_raises(mf) ==
    \/ mf.kind = "malformed"
    \/ \E i \in 1..Len(mf.entries) : MetaInfo_raises(mf.entries[i].info_dict)

\* DataStore(...).__enter__() (lines 309-319).  The value file is opened first;
\* when a later line raises, the with statement does not call __exit__ and
\* nothing closes the handle
EnterSession ==
    /\ session \in {"out", "closed"}
    /\ handle' = "open"
    /\ pos' = Len(file)
    /\ IF enter_raises(meta_file)
       THEN /\ session' = "failed"
            /\ last' = Call("enter", "", "", None, FALSE, None, <<>>, "")
            /\ UNCHANGED <<meta_dict, expiry_time_heap, free_slots, loaded>>
       ELSE \E md \in {load_meta_dict(meta_file.entries)} :
            /\ session' = "in"
            /\ loaded' = meta_file.entries
            /\ meta_dict' = md
            /\ expiry_time_heap' = build_expiry_time_heap(md)
            /\ free_slots' = preprocess(md)
            /\ last' = Call("enter", "", "", None, TRUE, None, <<>>, "")
    /\ prev' = last
    /\ UNCHANGED <<file, now, calls, meta_file, thread_vars, hist, written>>

\* DataStore.__exit__ (lines 321-325), at the end of the with block or when a
\* call inside it raised
ExitSession ==
    /\ session = "in"
    /\ handle' = "closed"
    /\ meta_file' = dump_meta_dict(meta_dict)
    /\ session' = "closed"
    /\ last' = Call("exit", "", "", None, TRUE, None, <<>>, "")
    /\ prev' = last
    /\ UNCHANGED <<meta_dict, expiry_time_heap, free_slots, file, pos, now, loaded,
                   calls, thread_vars, hist, written>>

\* a metadata file that json.load refuses
MalformedMetaFile == [kind |-> "malformed", entries |-> <<>>]

\* the store a session leaves that called create('a', one) and create('b', two)
\* at time 0 on a new path: the value file and the metadata file
LeftFile == commit(commit(<<>>, "one", 0), "two", VALUE_SIZE)

\* the values that earlier session wrote
LeftWritten == [key \in Keys |-> IF key = "a" THEN "one" ELSE "two"]

LeftMetaFile ==
    dump_meta_dict(<<build_meta_info("a", 0, None, 0),
                     build_meta_info("b", VALUE_SIZE, None, 0)>>)

\* what a storage path holds before a session: nothing, a metadata file that is
\* malformed, or what an earlier session left
StoragePaths ==
    {<<<<>>, NoMetaFile>>, <<<<>>, MalformedMetaFile>>, <<LeftFile, LeftMetaFile>>}

\* DataStore.__init__ (lines 224-230): no handle, no FileMeta
InitSession ==
    /\ \E sp \in StoragePaths :
        /\ file = sp[1]
        /\ meta_file = sp[2]
        /\ written = IF sp[1] = LeftFile THEN LeftWritten ELSE NoWritten
    /\ meta_dict = <<>>
    /\ expiry_time_heap = <<>>
    /\ free_slots = <<>>
    /\ pos = 0
    /\ now = 0
    /\ last = NoCall
    /\ prev = NoCall
    /\ loaded = <<>>
    /\ calls = 0
    /\ ThreadsIdle
    /\ handle = "none"
    /\ session = "out"
    /\ hist = NoHist

NextSession ==
    \/ EnterSession
    \/ ExitSession
    \/ \E kv \in Inputs, ttl \in SessionTTLs : Create(kv[1], kv[2], ttl)
    \/ \E key \in Keys : Read(key)
    \/ \E key \in Keys : Delete(key)
    \/ \E kv \in Inputs, ttl \in SessionTTLs : Update(kv[1], kv[2], ttl)
    \/ Tick

\* sessions of one thread on one storage path, one after the other
SpecSession == InitSession /\ [][NextSession]_vars

(************************ DataStore, several threads ***********************)

\* the calls that threads begin on one DataStore instance
MaxCallsMT == 2

\* the statements of the bodies of create, update and delete, which run inside
\* `with func.__lock__` (utils.py line 18)
BodyLabels ==
    {"create", "create_slot", "create_push", "create_index",
     "update", "update_index", "update_heap",
     "delete", "delete_free", "delete_heap",
     "seek", "write", "exit"}

Goto(t, label) == pc' = [pc EXCEPT ![t] = label]

\* the record of the calls that overlap: a call that begins while no other call
\* is under way opens a new record with the state and the time it finds, a call
\* that begins later joins it
Begun(c) ==
    IF \A t \in Threads : pc[t] = "idle"
    THEN [start |-> StoreState(meta_dict, expiry_time_heap, free_slots, file, pos),
          began |-> now, batch |-> <<c>>]
    ELSE [hist EXCEPT !.batch = Append(@, c)]

\* synced_func of a method decorated with @synchronized: `with func.__lock__`
\* takes the lock that synchronized(func) made for this one function
\* (utils.py line 15), and the body begins
Enter(t, op, key, value, ttl) ==
    /\ calls < MaxCallsMT
    /\ pc[t] = "idle"
    /\ lock[op] = 0
    /\ lock' = [lock EXCEPT ![op] = t]
    /\ Goto(t, op)
    /\ loc' = [loc EXCEPT ![t] = Locals(op, key, value, ttl)]
    /\ calls' = calls + 1
    /\ hist' = Begun([op |-> op, key |-> key, value |-> value, ttl |-> ttl])
    /\ UNCHANGED <<session_vars, meta_dict, expiry_time_heap, free_slots, file, pos, now, last, prev,
                   loaded, written>>

\* DataStore.create lines 247-251: tell() and _validate
CreateValidate(t) ==
    /\ pc[t] = "create"
    /\ IF validate(loc[t].key, loc[t].value, pos)
       THEN /\ loc' = [loc EXCEPT ![t].current_seek = pos]
            /\ Goto(t, "create_slot")
       ELSE /\ loc' = [loc EXCEPT ![t].current_seek = pos]
            /\ Goto(t, "exit")
    /\ UNCHANGED <<session_vars, hist, written, meta_dict, expiry_time_heap, free_slots, file, pos, now, last, prev,
                   loaded, calls, lock>>

\* FileMeta.create lines 152-162: the slot is chosen, and taken off the list
\* it came from
CreateSlot(t) ==
    /\ pc[t] = "create_slot"
    /\ \E src \in {slot_source(expiry_time_heap, free_slots, now)} :
        /\ loc' = [loc EXCEPT ![t].src = src,
                              ![t].seek_val = choose_slot(expiry_time_heap, free_slots,
                                                          loc[t].current_seek, now)]
        /\ free_slots' = IF src = "free" THEN Tail(free_slots) ELSE free_slots
        /\ expiry_time_heap' = IF src = "expired" THEN heappop(expiry_time_heap)
                               ELSE expiry_time_heap
    /\ Goto(t, "create_push")
    /\ UNCHANGED <<session_vars, hist, written, meta_dict, file, pos, now, last, prev, loaded, calls, lock>>

\* FileMeta.create lines 164-167: the MetaInfo is built and pushed on the heap
CreatePush(t) ==
    /\ pc[t] = "create_push"
    /\ \E meta_info \in {build_meta_info(loc[t].key, loc[t].seek_val, loc[t].ttl, now)} :
        /\ loc' = [loc EXCEPT ![t].meta_info = meta_info]
        /\ expiry_time_heap' =
               IF Truthy(loc[t].ttl)
               THEN heappush(expiry_time_heap, <<expiry_time(meta_info), meta_info>>)
               ELSE expiry_time_heap
    /\ Goto(t, "create_index")
    /\ UNCHANGED <<session_vars, hist, written, meta_dict, free_slots, file, pos, now, last, prev, loaded, calls, lock>>

\* FileMeta.create line 169: self.meta_dict[key] = meta_info
CreateIndex(t) ==
    /\ pc[t] = "create_index"
    /\ meta_dict' = DictSet(meta_dict, loc[t].key, loc[t].meta_info)
    /\ Goto(t, "seek")
    /\ UNCHANGED <<session_vars, hist, written, expiry_time_heap, free_slots, file, pos, now, last, prev, loaded,
                   calls, lock, loc>>

\* DataStore.update lines 299-304: _validate, then the key's offset is read; a
\* key that is absent raises and the with statement lets the lock go
UpdateValidate(t) ==
    /\ pc[t] = "update"
    /\ \E meta_info \in {FileMeta_read(meta_dict, loc[t].key)} :
       IF ~validate(loc[t].key, loc[t].value, 0)
       THEN /\ Goto(t, "exit")
            /\ UNCHANGED loc
       ELSE IF meta_info = NoMetaInfo
       THEN /\ Goto(t, "exit")
            /\ loc' = [loc EXCEPT ![t].raised = TRUE]
       ELSE /\ loc' = [loc EXCEPT ![t].seek_val = meta_info.seek_val]
            /\ Goto(t, "update_index")
    /\ UNCHANGED <<session_vars, hist, written, meta_dict, expiry_time_heap, free_slots, file, pos, now, last, prev,
                   loaded, calls, lock>>

\* FileMeta.update lines 214-215
UpdateIndex(t) ==
    /\ pc[t] = "update_index"
    /\ \E meta_info \in {build_meta_info(loc[t].key, loc[t].seek_val, loc[t].ttl, now)} :
        /\ loc' = [loc EXCEPT ![t].meta_info = meta_info]
        /\ meta_dict' = DictSet(meta_dict, loc[t].key, meta_info)
    /\ Goto(t, "update_heap")
    /\ UNCHANGED <<session_vars, hist, written, expiry_time_heap, free_slots, file, pos, now, last, prev, loaded,
                   calls, lock>>

\* FileMeta.delete lines 193-198: a key that is absent returns None, a key that
\* is present leaves the index
DeleteIndex(t) ==
    /\ pc[t] = "delete"
    /\ IF DictHas(meta_dict, loc[t].key)
       THEN /\ loc' = [loc EXCEPT ![t].seek_val = DictGet(meta_dict, loc[t].key).seek_val]
            /\ meta_dict' = DictDel(meta_dict, loc[t].key)
            /\ written' = [written EXCEPT ![loc[t].key] = ""]
            /\ Goto(t, "delete_free")
       ELSE /\ Goto(t, "exit")
            /\ UNCHANGED <<loc, meta_dict, written>>
    /\ UNCHANGED <<session_vars, hist, expiry_time_heap, free_slots, file, pos, now, last, prev, loaded,
                   calls, lock>>

\* FileMeta.delete line 199
DeleteFree(t) ==
    /\ pc[t] = "delete_free"
    /\ free_slots' = delete_free_slots(free_slots, loc[t].seek_val)
    /\ Goto(t, "delete_heap")
    /\ UNCHANGED <<session_vars, hist, written, meta_dict, expiry_time_heap, file, pos, now, last, prev, loaded,
                   calls, lock, loc>>

\* self.build_expiry_time_heap() of FileMeta.update (line 216) and of
\* FileMeta.delete (line 200)
RebuildHeap(t) ==
    /\ pc[t] \in {"update_heap", "delete_heap"}
    /\ expiry_time_heap' = build_expiry_time_heap(meta_dict)
    /\ IF pc[t] = "update_heap"
       THEN /\ Goto(t, "seek")
            /\ UNCHANGED loc
       ELSE /\ Goto(t, "exit")
            /\ loc' = [loc EXCEPT ![t].ok = TRUE]
    /\ UNCHANGED <<session_vars, hist, written, meta_dict, free_slots, file, pos, now, last, prev, loaded, calls, lock>>

\* DataStore.commit line 344: self.file_handle.seek(pos)
Seek(t) ==
    /\ pc[t] = "seek"
    /\ pos' = loc[t].seek_val
    /\ Goto(t, "write")
    /\ UNCHANGED <<session_vars, hist, written, meta_dict, expiry_time_heap, free_slots, file, now, last, prev, loaded,
                   calls, lock, loc>>

\* DataStore.commit line 345: self.file_handle.write(...)
Write(t) ==
    /\ pc[t] = "write"
    /\ file' = commit(file, loc[t].value, pos)
    /\ pos' = Len(file')
    /\ written' = [written EXCEPT ![loc[t].key] = loc[t].value]
    /\ loc' = [loc EXCEPT ![t].ok = TRUE]
    /\ Goto(t, "exit")
    /\ UNCHANGED <<session_vars, hist, meta_dict, expiry_time_heap, free_slots, now, last, prev, loaded,
                   calls, lock>>

\* the end of `with func.__lock__` (utils.py lines 18-19): the lock of this one
\* function is let go, on return and on an exception alike
Exit(t) ==
    /\ pc[t] = "exit"
    /\ lock' = [lock EXCEPT ![loc[t].op] = 0]
    /\ Goto(t, "idle")
    /\ last' = [Call(loc[t].op, loc[t].key, loc[t].value, loc[t].current_seek,
                     loc[t].ok, loc[t].seek_val, <<>>, loc[t].src)
                    EXCEPT !.raised = loc[t].raised]
    /\ prev' = last
    /\ loc' = [loc EXCEPT ![t] = NoLocals]
    /\ UNCHANGED <<session_vars, hist, written, meta_dict, expiry_time_heap, free_slots, file, pos, now, loaded, calls>>

\* a plausible slip: read waits for the lock of create
ReadLock_of_create == "create"

\* the lock DataStore.read takes: the method is not decorated with
\* @synchronized (line 257), so none
ReadLock == "none"

\* DataStore.read lines 269-270, which no lock guards: a key that is absent
\* raises AttributeError
ReadMeta(t, key) ==
    /\ calls < MaxCallsMT
    /\ pc[t] = "idle"
    /\ ReadLock \in LockNames => lock[ReadLock] = 0
    /\ calls' = calls + 1
    /\ \E meta_info \in {FileMeta_read(meta_dict, key)} :
       IF meta_info # NoMetaInfo
       THEN /\ loc' = [loc EXCEPT ![t] =
                          [Locals("read", key, "", None) EXCEPT
                              !.seek_val = meta_info.seek_val]]
            /\ Goto(t, "read_seek")
            /\ hist' = Begun([op |-> "read", key |-> key, value |-> "", ttl |-> None])
            /\ lock' = IF ReadLock \in LockNames THEN [lock EXCEPT ![ReadLock] = t] ELSE lock
            /\ UNCHANGED <<last, prev>>
       ELSE /\ last' = Raised(Call("read", key, "", None, FALSE, None, <<>>, ""))
            /\ prev' = last
            /\ UNCHANGED <<pc, loc, hist, lock>>
    /\ UNCHANGED <<session_vars, meta_dict, expiry_time_heap, free_slots, file, pos, now, loaded,
                   written>>

\* DataStore.read line 271
ReadSeek(t) ==
    /\ pc[t] = "read_seek"
    /\ pos' = loc[t].seek_val
    /\ Goto(t, "read_read")
    /\ UNCHANGED <<session_vars, hist, written, meta_dict, expiry_time_heap, free_slots, file, now, last, prev, loaded,
                   calls, lock, loc>>

\* DataStore.read line 272: read(VALUE_SIZE) from where the handle stands
ReadRead(t) ==
    /\ pc[t] = "read_read"
    /\ \E text \in {read_at(file, pos)} :
        /\ pos' = pos + Len(text)
        /\ last' = Call("read", loc[t].key, "", None, TRUE, loc[t].seek_val,
                        lstrip0(text), "")
    /\ prev' = last
    /\ Goto(t, "idle")
    /\ loc' = [loc EXCEPT ![t] = NoLocals]
    /\ lock' = IF ReadLock \in LockNames THEN [lock EXCEPT ![ReadLock] = 0] ELSE lock
    /\ UNCHANGED <<session_vars, hist, written, meta_dict, expiry_time_heap, free_slots, file, now, loaded, calls>>

\* the clock advances while no call is under way
TickMT ==
    /\ \A t \in Threads : pc[t] = "idle"
    /\ Tick

\* the ttl arguments of the calls of the threads
ThreadTTLs == {None, 1}

NextMT ==
    \/ \E t \in Threads, op \in LockNames, kv \in Inputs, ttl \in ThreadTTLs :
           Enter(t, op, kv[1], kv[2], ttl)
    \/ \E t \in Threads : CreateValidate(t)
    \/ \E t \in Threads : CreateSlot(t)
    \/ \E t \in Threads : CreatePush(t)
    \/ \E t \in Threads : CreateIndex(t)
    \/ \E t \in Threads : UpdateValidate(t)
    \/ \E t \in Threads : UpdateIndex(t)
    \/ \E t \in Threads : DeleteIndex(t)
    \/ \E t \in Threads : DeleteFree(t)
    \/ \E t \in Threads : RebuildHeap(t)
    \/ \E t \in Threads : Seek(t)
    \/ \E t \in Threads : Write(t)
    \/ \E t \in Threads : Exit(t)
    \/ \E t \in Threads, key \in Keys : ReadMeta(t, key)
    \/ \E t \in Threads : ReadSeek(t)
    \/ \E t \in Threads : ReadRead(t)
    \/ TickMT

\* the stores the threads begin on: a new one, or the one that create('b', two)
\* left in the same session
StoresMT == {EmptyStore, DS_create(EmptyStore, "b", "two", None, 0)}

\* a session that is open, before the threads call
InitMT ==
    /\ \E s \in StoresMT :
        /\ written = [key \in Keys |-> IF DictHas(s.meta_dict, key) THEN "two" ELSE ""]
        /\ meta_dict = s.meta_dict
        /\ expiry_time_heap = s.expiry_time_heap
        /\ free_slots = s.free_slots
        /\ file = s.file
        /\ pos = s.pos
    /\ now = 0
    /\ last = NoCall
    /\ prev = NoCall
    /\ loaded = <<>>
    /\ calls = 0
    /\ ThreadsIdle
    /\ handle = "open"
    /\ session = "in"
    /\ meta_file = NoMetaFile
    /\ hist = NoHist

\* one session, used by two threads
SpecMT == InitMT /\ [][NextMT]_vars

\* the steps of the calls that read and write values: read, create and update
NextRW ==
    \/ \E t \in Threads, op \in {"create", "update"}, kv \in Inputs, ttl \in ThreadTTLs :
           Enter(t, op, kv[1], kv[2], ttl)
    \/ \E t \in Threads : CreateValidate(t)
    \/ \E t \in Threads : CreateSlot(t)
    \/ \E t \in Threads : CreatePush(t)
    \/ \E t \in Threads : CreateIndex(t)
    \/ \E t \in Threads : UpdateValidate(t)
    \/ \E t \in Threads : UpdateIndex(t)
    \/ \E t \in Threads : RebuildHeap(t)
    \/ \E t \in Threads : Seek(t)
    \/ \E t \in Threads : Write(t)
    \/ \E t \in Threads : Exit(t)
    \/ \E t \in Threads, key \in Keys : ReadMeta(t, key)
    \/ \E t \in Threads : ReadSeek(t)
    \/ \E t \in Threads : ReadRead(t)

\* one session, used by two threads that read, create and update
SpecRW == InitMT /\ [][NextRW]_vars

(********************************* claims **********************************)

\* a step in which op was called
Called(op) == calls' = calls + 1 /\ last'.op = op

\* the offsets of the keys in the index
LiveOffsets(md) == {md[i].seek_val : i \in 1..Len(md)}

\* how often x occurs in the list s
Count(s, x) == Cardinality({i \in 1..Len(s) : s[i] = x})

\* C1: after any sequence of DataStore calls in one session, with the clock
\* advancing, no two keys of the index have the same offset.
C1_DistinctOffsets ==
    \A i, j \in 1..Len(meta_dict) :
        i # j => meta_dict[i].seek_val # meta_dict[j].seek_val

\* C2: starting from an empty store, every key of the index has an offset that
\* is a non-negative multiple of VALUE_SIZE.
C2_OffsetsAligned ==
    \A i \in 1..Len(meta_dict) :
        meta_dict[i].seek_val >= 0 /\ meta_dict[i].seek_val % VALUE_SIZE = 0

\* a create that fell back to tell() right after a read, beyond offset 0
C2_Witness ==
    /\ prev.op = "read" /\ prev.ok
    /\ last.op = "create" /\ last.ok /\ last.src = "fallback" /\ last.ret > 0
    /\ DictGet(meta_dict, last.key).seek_val = last.ret

\* C3: a create of key k with value v that passes validation, immediately
\* followed by read(k), returns the serialized form of v, whichever slot the
\* allocator chose.
C3_CreateThenRead ==
    [][(last.op = "create" /\ last.ok /\ Called("read") /\ last'.key = last.key)
         => (last'.ok /\ last'.data = json_dumps(last.value))]_vars

\* C4: whenever free_slots is non-empty, FileMeta.create returns its first
\* element and removes exactly that element, whatever the expiry heap holds
\* and whatever fallback offset is passed.
C4_FreeSlotFirst ==
    [][(Called("create") /\ free_slots # <<>>)
         => (last'.ret = Head(free_slots) /\ free_slots' = Tail(free_slots))]_vars

\* a create took a free slot, not its fallback, while the minimum of the expiry
\* heap had expired
C4_Witness ==
    /\ last.op = "create" /\ last.src = "free" /\ last.pre.top = "past"
    /\ last.ret # last.seek

\* the entries of the index that carry a ttl and expire soonest
Soonest(md) ==
    {i \in 1..Len(md) :
        /\ Truthy(md[i].ttl)
        /\ \A j \in 1..Len(md) :
               Truthy(md[j].ttl) => expiry_time(md[i]) <= expiry_time(md[j])}

C6_NoEarlyReclaim ==
    [][(/\ Called("create")
        /\ free_slots = <<>>
        /\ \A i \in 1..Len(meta_dict) :
               Truthy(meta_dict[i].ttl) => now < expiry_time(meta_dict[i]))
         => /\ last'.ret = last'.seek
            /\ \A k \in 1..Len(expiry_time_heap) :
                   Count(expiry_time_heap', expiry_time_heap[k])
                       >= Count(expiry_time_heap, expiry_time_heap[k])]_vars

\* C7: with free_slots and the expiry heap empty and k1 in the index at offset
\* o, delete(k1) puts o into free_slots and the create that follows puts its
\* key into the index at o.
C7_DeleteThenCreateReuses ==
    [][(last.op = "delete" /\ last.ok /\ last.pre.empty /\ Called("create"))
         => /\ free_slots = <<last.ret>>
            /\ free_slots' = <<>>
            /\ last'.ret = last.ret
            /\ DictHas(meta_dict', last'.key)
            /\ DictGet(meta_dict', last'.key).seek_val = last.ret]_vars

\* a delete that found both lists empty, then a create of another key that got
\* the freed offset and not its fallback
C7_Witness ==
    /\ prev.op = "delete" /\ prev.ok /\ prev.pre.empty
    /\ last.op = "create" /\ last.key # prev.key
    /\ last.ret = prev.ret /\ last.ret # last.seek

\* the offsets of the index are distinct multiples of VALUE_SIZE
DistinctMultiples(md) ==
    /\ \A i, j \in 1..Len(md) : i # j => md[i].seek_val # md[j].seek_val
    /\ \A i \in 1..Len(md) : md[i].seek_val % VALUE_SIZE = 0

\* the multiples of VALUE_SIZE strictly between the smallest and the largest
\* offset of the index that are not the offset of a key
ExpectedGaps(md) ==
    {m \in 0..(MaxLoadSlot * VALUE_SIZE) :
        /\ m % VALUE_SIZE = 0
        /\ m \notin LiveOffsets(md)
        /\ \E a, b \in LiveOffsets(md) : a < m /\ m < b}

\* C8: for an index whose offsets are distinct multiples of VALUE_SIZE,
\* preprocess leaves in free_slots exactly the multiples of VALUE_SIZE strictly
\* between the smallest and the largest offset that no key has, in ascending
\* order without duplicates.
C8_GapReconstruction ==
    (last.op = "init" /\ DistinctMultiples(meta_dict))
        => /\ \A i \in 1..(Len(free_slots) - 1) : free_slots[i] < free_slots[i + 1]
           /\ {free_slots[i] : i \in 1..Len(free_slots)} = ExpectedGaps(meta_dict)

\* the index {0, 2W, 5W} gives [W, 3W, 4W]
C8_Witness ==
    /\ last.op = "init"
    /\ LiveOffsets(meta_dict) = {0, 2 * VALUE_SIZE, 5 * VALUE_SIZE}
    /\ free_slots = <<VALUE_SIZE, 3 * VALUE_SIZE, 4 * VALUE_SIZE>>

\* x is not greater than y, by expiry time and then by created_time
EntryLeq(x, y) ==
    x[1] < y[1] \/ (x[1] = y[1] /\ x[2].created_time <= y[2].created_time)

\* C9: after construction and after every FileMeta create, update or delete,
\* the entry at index i of expiry_time_heap is not greater than the entries at
\* 2i+1 and 2i+2.
C9_MinHeap ==
    \A i \in 0..(Len(expiry_time_heap) - 1) :
        \A c \in {2 * i + 1, 2 * i + 2} :
            c < Len(expiry_time_heap)
                => EntryLeq(expiry_time_heap[i + 1], expiry_time_heap[c + 1])

\* a create popped an expired entry and left a heap of three entries or more
C9_Witness ==
    /\ last.op = "create" /\ last.src = "expired"
    /\ Len(expiry_time_heap) >= 3

\* the threads that are inside the body of a create, an update or a delete
InBody == {t \in Threads : pc[t] \in BodyLabels}

\* C10: on one DataStore instance used by several threads, at most one create,
\* update or delete is inside its body at any time.
C10_OneMutatingCallInBody == Cardinality(InBody) <= 1

\* the arguments break a limit: the key has 32 bytes or more, the serialized
\* value has VALUE_SIZE bytes or more, or the offset lies beyond
\* MAX_FILE_SIZE - VALUE_SIZE
BreaksLimit(key, value, seek_pos) ==
    \/ key = LongKey
    \/ value = "big"
    \/ seek_pos > MAX_FILE_SIZE - VALUE_SIZE

\* C12: a DataStore.create or DataStore.update whose key, value or file-size
\* validation fails leaves the index, free_slots, the expiry heap and the bytes
\* of the value file as they were.
C12_FailedValidationChangesNothing ==
    [][(\/ Called("create") /\ BreaksLimit(last'.key, last'.value, pos)
        \/ Called("update") /\ BreaksLimit(last'.key, last'.value, 0))
         => (/\ ~last'.ok
             /\ UNCHANGED <<meta_dict, expiry_time_heap, free_slots, file>>)]_vars

\* a create was refused for the size of the file alone, on a store that holds keys
C12_Witness ==
    /\ last.op = "create" /\ ~last.ok
    /\ last.key # LongKey /\ last.value # "big"
    /\ last.seek > MAX_FILE_SIZE - VALUE_SIZE
    /\ meta_dict # <<>> /\ file # <<>>

\* C13: a delete of a key that is not in the index returns None and leaves the
\* index, free_slots and the expiry heap as they were.
C13_DeleteAbsentChangesNothing ==
    [][(Called("delete") /\ ~DictHas(meta_dict, last'.key))
         => (/\ ~last'.ok
             /\ last'.ret = None
             /\ UNCHANGED <<meta_dict, expiry_time_heap, free_slots>>)]_vars

\* a delete found its key absent while the index, free_slots and the heap all
\* held something
C13_Witness ==
    /\ last.op = "delete" /\ ~last.ok /\ last.ret = None
    /\ ~DictHas(meta_dict, last.key)
    /\ meta_dict # <<>> /\ free_slots # <<>> /\ expiry_time_heap # <<>>

\* C17: after any sequence of create, update and delete calls, with the clock
\* advancing, free_slots holds no offset of a key that is in the index.
C17_FreeSlotsNotInIndex ==
    \A i \in 1..Len(free_slots) : free_slots[i] \notin LiveOffsets(meta_dict)

\* the MetaInfo objects in the expiry heap
HeapEntries == {expiry_time_heap[i][2] : i \in 1..Len(expiry_time_heap)}

\* the MetaInfo objects of the index that carry a ttl
TtlEntries == {meta_dict[i] : i \in {j \in 1..Len(meta_dict) : Truthy(meta_dict[j].ttl)}}

\* C18: after every FileMeta create, update or delete, the MetaInfo entries in
\* the expiry heap are exactly the entries of the index that carry a ttl.
C18_HeapMatchesIndex ==
    last.op \in {"create", "update", "delete"} => HeapEntries = TtlEntries

\* C14: closing a session and opening a new one on the same path gives an index
\* equal to the index at close: the same keys, each with the same offset, ttl
\* and created_time, for keys with a ttl as well as for keys without one.
C14_ReopenRestoresIndex ==
    [][(session = "closed" /\ session' # "closed")
         => (session' = "in" /\ meta_dict' = meta_dict)]_vars

\* C15: on every way out of a session (the end of the with block, a call that
\* raised inside it, a session start that failed after the value file was
\* opened) the handle of the value file is closed, and a session that was
\* entered leaves the metadata file rewritten from the index.
C15_EveryExitClosesHandle ==
    /\ session \in {"closed", "failed"} => handle = "closed"
    /\ session = "closed" => meta_file = dump_meta_dict(meta_dict)

\* C16: in every DataStore.create, whatever calls came before it in the session,
\* the fallback offset handed to the allocator is the length of the value file,
\* so a create that falls back gets no offset that a key of the index holds.
C16_FallbackIsEndOfFile ==
    [][Called("create")
         => /\ last'.seek = Len(file)
            /\ (last'.ok /\ last'.src = "fallback")
                   => last'.ret \notin LiveOffsets(meta_dict)]_vars

\* C20: every offset that delete freed and no create took before the session
\* closed is in free_slots after the next session on the same path has started,
\* wherever it lies among the offsets of the index.
C20_FreedSlotsSurviveReopen ==
    [][(session = "closed" /\ session' = "in")
         => \A i \in 1..Len(free_slots) :
                \E j \in 1..Len(free_slots') : free_slots'[j] = free_slots[i]]_vars

\* C19: DataStore.update of a key that is in the index keeps the key at its
\* offset, gives it a new MetaInfo (created_time = now, the ttl that was passed,
\* none when no ttl or a ttl of 0 was passed), and leaves free_slots and the
\* index entry of every other key as they were.
C19_UpdateKeepsOffset ==
    [][(Called("update") /\ last'.ok)
         => \A ttl \in SessionTTLs :
                Update(last'.key, last'.value, ttl)
                    => LET key == last'.key
                       IN  /\ DictHas(meta_dict, key) /\ DictHas(meta_dict', key)
                           /\ DictGet(meta_dict', key).seek_val
                                  = DictGet(meta_dict, key).seek_val
                           /\ DictGet(meta_dict', key).created_time = now
                           /\ DictGet(meta_dict', key).ttl = (IF ttl = 0 THEN None ELSE ttl)
                           /\ free_slots' = free_slots
                           /\ Len(meta_dict') = Len(meta_dict)
                           /\ \A i \in 1..Len(meta_dict) :
                                  meta_dict[i].key # key => meta_dict'[i] = meta_dict[i]]_vars

\* an update gave a key a ttl at a later time, with another key in the index
C19_Witness ==
    /\ last.op = "update" /\ last.ok
    /\ Len(meta_dict) >= 2
    /\ DictGet(meta_dict, last.key).ttl = 1
    /\ DictGet(meta_dict, last.key).created_time > 0
    /\ DictGet(meta_dict, last.key).seek_val = last.ret

\* the orders in which n calls can be made one at a time
Orders(n) == {p \in [1..n -> 1..n] : \A i, j \in 1..n : i # j => p[i] # p[j]}

\* the index, free_slots and the entries of the heap of a store
Allocator(md, fs, heap) ==
    <<{md[i] : i \in 1..Len(md)}, fs, {heap[i] : i \in 1..Len(heap)}>>

\* the times of n calls made one after the other since the calls of hist began
CallTimes(n) ==
    {ts \in [1..n -> hist.began..now] : \A i, j \in 1..n : i < j => ts[i] <= ts[j]}

\* what the calls of hist leave when they are made one at a time, in any order
\* and at any times since the first of them began
SerialOutcomes ==
    {LET s == DS_calls(hist.start, [i \in 1..Len(hist.batch) |-> hist.batch[p[i]]], ts)
     IN  Allocator(s.meta_dict, s.free_slots, s.expiry_time_heap) :
         p \in Orders(Len(hist.batch)), ts \in CallTimes(Len(hist.batch))}

\* the calls of hist are creates, updates and deletes on distinct keys
DistinctKeyWriters ==
    /\ Len(hist.batch) >= 2
    /\ \A i \in 1..Len(hist.batch) : hist.batch[i].op \in LockNames
    /\ \A i, j \in 1..Len(hist.batch) : i # j => hist.batch[i].key # hist.batch[j].key

\* C11: when threads have made create, update and delete calls on distinct keys
\* at the same time, the index, free_slots and the expiry heap are what those
\* calls leave when made one at a time in some order, and no two keys have the
\* same offset.
C11_ConcurrentCallsSerialize ==
    (DistinctKeyWriters /\ \A t \in Threads : pc[t] = "idle")
        => /\ Allocator(meta_dict, free_slots, expiry_time_heap) \in SerialOutcomes
           /\ (\A i, j \in 1..Len(hist.start.meta_dict) :
                   i # j => hist.start.meta_dict[i].seek_val
                                # hist.start.meta_dict[j].seek_val)
                  => \A i, j \in 1..Len(meta_dict) :
                         i # j => meta_dict[i].seek_val # meta_dict[j].seek_val


\* C21: DataStore.read or DataStore.update of a key that is not in the index
\* fails for the caller, with an exception or, for an update whose arguments
\* break a limit, with the list of the limits broken, and changes nothing: the
\* index, free_slots, the expiry heap and the value file stay as they were.
C21_AbsentKeyFailsAndChangesNothing ==
    [][(calls' = calls + 1 /\ last'.op \in {"read", "update"}
          /\ ~DictHas(meta_dict, last'.key))
        => /\ ~last'.ok
           /\ last'.raised \/ BreaksLimit(last'.key, last'.value, 0)
           /\ UNCHANGED <<meta_dict, expiry_time_heap, free_slots, file>>]_vars

\* a read and then an update of an absent key, both raising, on a store that
\* holds a key
C21_Witness ==
    /\ prev.op = "read" /\ prev.raised
    /\ last.op = "update" /\ last.raised
    /\ meta_dict # <<>>
    /\ ~DictHas(meta_dict, last.key)

\* the threads that are between the steps of a read
Reading == {t \in Threads : pc[t] \in {"read_seek", "read_read"}}

\* C22: DataStore.read takes no lock: a thread that is between the steps of a
\* read holds none of the locks, whatever the other threads are doing, so that
\* the steps of a read interleave with the steps of a create or update.
C22_ReadTakesNoLock ==
    \A t \in Reading : \A op \in LockNames : lock[op] # t

\* what read(key) gives when it runs alone on the file f with the index md
ReadAlone(md, f, key) == lstrip0(read_at(f, DictGet(md, key).seek_val))

\* a read of key k has just returned while another thread, inside create or
\* update of k, has written and has not left the body; what the read returned
\* is neither what a read of k gave before the write began, nor the value the
\* writer stores, nor what a read of k gives now
C22_Witness ==
    /\ last.op = "read" /\ last.ok
    /\ \E t \in Threads :
        /\ pc[t] = "exit" /\ loc[t].ok
        /\ loc[t].op \in {"create", "update"}
        /\ loc[t].key = last.key
        /\ hist.batch[1].op = loc[t].op
        /\ DictHas(hist.start.meta_dict, last.key)
        /\ last.data # ReadAlone(hist.start.meta_dict, hist.start.file, last.key)
        /\ last.data # json_dumps(loc[t].value)
        /\ last.data # ReadAlone(meta_dict, file, last.key)

\* the highest offset a record may begin at
LastOffset == MAX_FILE_SIZE - VALUE_SIZE

\* C23: starting from an empty store, every create or update that writes passes
\* an offset of at most MAX_FILE_SIZE - VALUE_SIZE to commit, the bytes it writes
\* begin at an offset of at most MAX_FILE_SIZE - VALUE_SIZE, and afterwards no
\* key of the index has an offset above MAX_FILE_SIZE - VALUE_SIZE.
C23_WritesWithinFileSize ==
    [][((Called("create") \/ Called("update")) /\ last'.ok)
        => /\ last'.ret <= LastOffset
           /\ Len(file') - VALUE_SIZE <= LastOffset
           /\ \A i \in 1..Len(meta_dict') : meta_dict'[i].seek_val <= LastOffset]_vars

\* the entries of a heap
EntriesOf(heap) == {heap[i] : i \in 1..Len(heap)}

\* C24: whenever FileMeta.create is given a ttl, 0 included, the MetaInfo it
\* stores for the key has that ttl and the entry of that MetaInfo, keyed by its
\* creation time plus the ttl, is in the expiry heap when the call returns; a
\* create with no ttl adds nothing to the heap.
C24_TtlGivenIsStoredAndPushed ==
    [][Called("create")
        => /\ \A ttl \in TTLs \ {None} :
                  FMCreate(last'.key, last'.seek, ttl)
                      => \E m \in {DictGet(meta_dict', last'.key)} :
                             /\ m.ttl = ttl
                             /\ <<now + ttl, m>> \in EntriesOf(expiry_time_heap')
           /\ FMCreate(last'.key, last'.seek, None)
                  => EntriesOf(expiry_time_heap') \subseteq EntriesOf(expiry_time_heap)]_vars

\* C25: in a session of one thread, read(k) of a key k of the index returns the
\* value that the last create or update of k wrote, whatever calls on other
\* keys came since and however far the clock has advanced.
C25_ReadReturnsLastWritten ==
    [][(Called("read") /\ DictHas(meta_dict, last'.key))
        => /\ last'.ok
           /\ last'.data = json_dumps(written[last'.key])]_vars

\* the offsets that the allocator accounts for: those of the keys of the index
\* and those of free_slots
Accounted(md, fs) == LiveOffsets(md) \cup {fs[i] : i \in 1..Len(fs)}

\* C26: no slot is leaked within a session that starts on an empty store.  Every
\* offset of the index or of free_slots was handed out by a create, so the claim
\* is that no call takes an offset out of both: after every create, update or
\* delete, create on a key of the index included, the offset a create handed
\* out and every offset that was in the index or in free_slots before the call
\* is the offset of a key of the index or an element of free_slots.
C26_NoSlotLeaked ==
    [][(calls' = calls + 1)
        => /\ Accounted(meta_dict, free_slots) \subseteq Accounted(meta_dict', free_slots')
           /\ (last'.op = "create" /\ last'.ok)
                  => last'.ret \in Accounted(meta_dict', free_slots')]_vars


=============================================================================
